---------------------------- MODULE Spec2Model ----------------------------
(***************************************************************************)
(* Model of zif-terminal/lib: the Hyperliquid adapter's FetchTrades and    *)
(* its normalisation helpers (exchange/hyperliquid/client.go) and the      *)
(* duplicate-tolerant batch insert AddFundingPayments                      *)
(* (db/funding_payment.go).                                                *)
(*                                                                         *)
(* Text that the code parses or splits is a sequence of one-character      *)
(* strings (<<"6","0">> is "60"); opaque text (hashes, ids) is a string.   *)
(* Instants are integers in milliseconds; ZeroTime stands for time.Time{}, *)
(* which lies before every instant the modelled upstream can send.         *)
(* Durations are integers in milliseconds.                                 *)
(***************************************************************************)
EXTENDS Integers, Sequences, FiniteSets, TLC

(***************************************************************************)
(* Bounds of the model                                                     *)
(***************************************************************************)
MaxTs == 2
MaxFills == 2
MaxHeaderLen == 2
MaxBatch == 2
MaxKeys == 2
MaxDepth == 3
MaxCalls == 2
MaxIDs == 2
MaxRows == 2
MaxAllocs == 2
MaxSideLen == 2
MaxCoinLen == 4
MaxFracZeros == 18

(***************************************************************************)
(* Program constants                                                       *)
(***************************************************************************)
ZeroTime == -1
Second == 1000
StatusOK == 200
StatusTooManyRequests == 429
Precision == 18

None == "none"

(***************************************************************************)
(* Generic helpers on sequences                                            *)
(***************************************************************************)
Range(s) == {s[i] : i \in DOMAIN s}

SeqsUpTo(S, n) == UNION {[1..k -> S] : k \in 0..n}

Perms(n) == {f \in [1..n -> 1..n] : \A i, j \in 1..n : i # j => f[i] # f[j]}

(***************************************************************************)
(* strconv.Atoi / strconv.ParseInt(s, 10, 64): an optional sign followed   *)
(* by one or more decimal digits                                           *)
(***************************************************************************)
DigitChars == <<"0", "1", "2", "3", "4", "5", "6", "7", "8", "9">>

IsDigit(c) == \E i \in 1..10 : DigitChars[i] = c

DigitVal(c) == (CHOOSE i \in 1..10 : DigitChars[i] = c) - 1

RECURSIVE DigitsValue(_)
DigitsValue(s) ==
    IF s = <<>> THEN 0
    ELSE 10 * DigitsValue(SubSeq(s, 1, Len(s) - 1)) + DigitVal(s[Len(s)])

AtoiBody(s) == IF s # <<>> /\ s[1] \in {"+", "-"} THEN Tail(s) ELSE s

AtoiOK(s) ==
    /\ AtoiBody(s) # <<>>
    /\ \A i \in DOMAIN AtoiBody(s) : IsDigit(AtoiBody(s)[i])

Atoi(s) ==
    IF s # <<>> /\ s[1] = "-" THEN 0 - DigitsValue(AtoiBody(s))
    ELSE DigitsValue(AtoiBody(s))

RECURSIVE Itoa(_)
Itoa(n) ==
    IF n < 0 THEN <<"-">> \o Itoa(0 - n)
    ELSE IF n < 10 THEN <<DigitChars[n + 1]>>
    ELSE Itoa(n \div 10) \o <<DigitChars[(n % 10) + 1]>>

(***************************************************************************)
(* parseRetryAfter: the Retry-After header in seconds, 0 when it is absent *)
(* or not an integer.  The mutant reads the number as milliseconds.        *)
(***************************************************************************)
parseRetryAfterNoScale(retryAfter) ==
    IF retryAfter = <<>> THEN 0
    ELSE IF ~AtoiOK(retryAfter) THEN 0
    ELSE Atoi(retryAfter)

parseRetryAfter(retryAfter) ==
    IF retryAfter = <<>> THEN 0
    ELSE IF ~AtoiOK(retryAfter) THEN 0
    ELSE Atoi(retryAfter) * Second

(***************************************************************************)
(* Wire values: a JSON field decoded into interface{} is a float64, a      *)
(* string or nil.  RFC3339Text(ms) stands for the RFC 3339 text of the     *)
(* instant ms (one digit), e.g. "1970-01-01T00:00:00.002Z" for 2.          *)
(***************************************************************************)
Num(n) == [k |-> "float64", v |-> n, frac |-> <<>>]
Txt(s) == [k |-> "string", v |-> s]
Nil == [k |-> "nil", v |-> 0]

RFC3339Text(ms) == <<"T", DigitChars[ms + 1]>>

IsRFC3339(s) == Len(s) = 2 /\ s[1] = "T" /\ IsDigit(s[2])

(***************************************************************************)
(* parseTimestamp: milliseconds as number or numeric text, or RFC 3339     *)
(* text; the zero time for everything else                                 *)
(***************************************************************************)
parseTimestamp(ts) ==
    CASE ts.k = "float64" -> ts.v
      [] ts.k = "int64" -> ts.v
      [] ts.k = "string" ->
            IF AtoiOK(ts.v) THEN Atoi(ts.v)
            ELSE IF IsRFC3339(ts.v) THEN DigitVal(ts.v[2])
            ELSE ZeroTime
      [] OTHER -> ZeroTime

IsZero(t) == t = ZeroTime

Before(t, u) == t < u

(***************************************************************************)
(* normalizeSide                                                           *)
(***************************************************************************)
Lower ==
    <<"a", "b", "c", "d", "e", "f", "g", "h", "i", "j", "k", "l", "m",
      "n", "o", "p", "q", "r", "s", "t", "u", "v", "w", "x", "y", "z">>
Upper ==
    <<"A", "B", "C", "D", "E", "F", "G", "H", "I", "J", "K", "L", "M",
      "N", "O", "P", "Q", "R", "S", "T", "U", "V", "W", "X", "Y", "Z">>

ToUpperChar(c) ==
    IF \E i \in DOMAIN Lower : Lower[i] = c
    THEN Upper[CHOOSE i \in DOMAIN Lower : Lower[i] = c]
    ELSE c

ToUpper(s) == [i \in DOMAIN s |-> ToUpperChar(s[i])]

IsSpace(c) == c \in {" ", "\t", "\n", "\r"}

RECURSIVE TrimLeft(_)
TrimLeft(s) == IF s # <<>> /\ IsSpace(s[1]) THEN TrimLeft(Tail(s)) ELSE s

RECURSIVE TrimRight(_)
TrimRight(s) ==
    IF s # <<>> /\ IsSpace(s[Len(s)]) THEN TrimRight(SubSeq(s, 1, Len(s) - 1)) ELSE s

TrimSpace(s) == TrimRight(TrimLeft(s))

\* The mutant does not trim.
normalizeSideNoTrim(side) ==
    LET s == ToUpper(side) IN
    CASE s \in {<<"B">>, <<"B", "U", "Y">>, <<"L", "O", "N", "G">>} -> "buy"
      [] s \in {<<"S">>, <<"S", "E", "L", "L">>, <<"S", "H", "O", "R", "T">>} -> "sell"
      [] s \in {<<"A">>, <<"C", "L", "O", "S", "E">>,
                <<"L", "I", "Q", "U", "I", "D", "A", "T", "I", "O", "N">>} -> "sell"
      [] OTHER -> "buy"

normalizeSide(side) ==
    LET s == ToUpper(TrimSpace(side)) IN
    CASE s \in {<<"B">>, <<"B", "U", "Y">>, <<"L", "O", "N", "G">>} -> "buy"
      [] s \in {<<"S">>, <<"S", "E", "L", "L">>, <<"S", "H", "O", "R", "T">>} -> "sell"
      [] s \in {<<"A">>, <<"C", "L", "O", "S", "E">>,
                <<"L", "I", "Q", "U", "I", "D", "A", "T", "I", "O", "N">>} -> "sell"
      [] OTHER -> "buy"

(***************************************************************************)
(* parseAssetPair: strings.Split(coin, "-"), then the first two parts, or  *)
(* the first part and "USDC"                                               *)
(***************************************************************************)
RECURSIVE Split(_, _)
Split(s, sep) ==
    IF \E i \in DOMAIN s : s[i] = sep
    THEN LET i == CHOOSE j \in DOMAIN s : s[j] = sep /\ \A h \in 1..(j - 1) : s[h] # sep
         IN <<SubSeq(s, 1, i - 1)>> \o Split(SubSeq(s, i + 1, Len(s)), sep)
    ELSE <<s>>

USDC == <<"U", "S", "D", "C">>

\* The mutant always assumes the default quote.
parseAssetPairDefaultQuote(coin) == <<Split(coin, "-")[1], USDC>>

parseAssetPair(coin) ==
    LET parts == Split(coin, "-") IN
    IF Len(parts) >= 2 THEN <<parts[1], parts[2]>> ELSE <<parts[1], USDC>>

(***************************************************************************)
(* convertToString: text unchanged, whole numbers as decimal text,         *)
(* nil as fmt's "<nil>"                                                    *)
(***************************************************************************)
\* A float64 with decimals: the whole part and the digits after the point
\* (no trailing zero)
Dec(whole, frac) == [k |-> "float64", v |-> whole, frac |-> frac]

Zeros(n) == [i \in 1..n |-> "0"]

\* strconv.FormatFloat(val, 'f', -1, 64): the shortest decimal text
FormatFloat(val) ==
    Itoa(val.v) \o (IF val.frac = <<>> THEN <<>> ELSE <<".">> \o val.frac)

convertToString(v) ==
    CASE v.k = "string" -> v.v
      [] v.k = "float64" -> FormatFloat(v)
      [] v.k = "int64" -> Itoa(v.v)
      [] OTHER -> <<"<", "n", "i", "l", ">">>

(***************************************************************************)
(* convertToString of package models: fmt.Sprintf("%.18f", val), then the  *)
(* trailing zeros and a trailing point are trimmed                         *)
(***************************************************************************)
\* The digits plus one, and whether that carries out of them
RECURSIVE IncDigits(_)
IncDigits(ds) ==
    IF ds = <<>> THEN [digits |-> <<>>, carry |-> 1]
    ELSE LET last == DigitVal(ds[Len(ds)])
             front == SubSeq(ds, 1, Len(ds) - 1) IN
         IF last < 9
         THEN [digits |-> front \o <<DigitChars[last + 2]>>, carry |-> 0]
         ELSE [digits |-> IncDigits(front).digits \o <<"0">>,
               carry |-> IncDigits(front).carry]

\* fmt.Sprintf("%.<prec>f", val): prec digits after the point, rounded
SprintfF(val, prec) ==
    LET f == val.frac
        kept == IF Len(f) <= prec THEN f \o Zeros(prec - Len(f)) ELSE SubSeq(f, 1, prec)
        up == Len(f) > prec /\ DigitVal(f[prec + 1]) >= 5
        inc == IncDigits(kept) IN
    IF up THEN Itoa(val.v + inc.carry) \o <<".">> \o inc.digits
    ELSE Itoa(val.v) \o <<".">> \o kept

\* strings.TrimRight(s, c) for a one-character cutset
RECURSIVE TrimRightChar(_, _)
TrimRightChar(s, c) ==
    IF s # <<>> /\ s[Len(s)] = c THEN TrimRightChar(SubSeq(s, 1, Len(s) - 1), c) ELSE s

modelsConvertToString(v) ==
    CASE v.k = "string" -> v.v
      [] v.k = "float64" ->
            TrimRightChar(TrimRightChar(SprintfF(v, Precision), "0"), ".")
      [] v.k = "int64" -> Itoa(v.v)
      [] OTHER -> <<"<", "n", "i", "l", ">">>

(***************************************************************************)
(* transformFill: never fails; the trade ID is the transaction hash        *)
(***************************************************************************)
transformFill(apiFill, accountUUID) ==
    LET pair == parseAssetPair(apiFill.Coin) IN
    [TradeID |-> apiFill.Hash,
     OrderID |-> convertToString(apiFill.Oid),
     BaseAsset |-> pair[1],
     QuoteAsset |-> pair[2],
     Side |-> normalizeSide(apiFill.Side),
     Price |-> convertToString(apiFill.Px),
     Quantity |-> convertToString(apiFill.Sz),
     Fee |-> convertToString(apiFill.Fee),
     Timestamp |-> parseTimestamp(apiFill.Time),
     ExchangeAccountID |-> accountUUID]


(***************************************************************************)
(* State                                                                   *)
(***************************************************************************)
VARIABLES
    fetchPc,        \* position of the FetchTrades call: idle, waiting, done
    ctxErr,         \* ctx.Err() when FetchTrades is entered
    account,        \* the account descriptor passed in
    since,          \* the watermark passed in
    httpRequests,   \* number of HTTP requests the call has sent
    httpResp,       \* the upstream's response, NoResponse before it arrives
    fetchOut        \* what FetchTrades returned: [trades, err]

fetchVars == <<fetchPc, ctxErr, account, since, httpRequests, httpResp, fetchOut>>

(***************************************************************************)
(* Inputs of FetchTrades                                                   *)
(***************************************************************************)
CtxErrs == {None, "Canceled", "DeadlineExceeded"}

ValidUUID == "6ba7b810-9dad-11d1-80b4-00c04fd430c8"

IsUUID(id) == id = ValidUUID

Accounts ==
    {[ID |-> id, AccountIdentifier |-> a] :
        id \in {ValidUUID, "not-a-uuid"}, a \in {"", "0x1234"}}

Sinces == {ZeroTime} \cup 1..MaxTs

TimeWires ==
    {Num(n) : n \in 1..MaxTs}
        \cup {Txt(<<"2">>), Txt(RFC3339Text(1)), Txt(<<"x">>)}

FillA(time) ==
    [Coin |-> <<"B", "T", "C", "-", "U", "S", "D", "C">>, Px |-> Txt(<<"5">>),
     Sz |-> Num(2), Side |-> <<"B">>, Time |-> time, Hash |-> "0xaaa",
     Tid |-> Num(1), Oid |-> Num(7), Fee |-> Txt(<<"0">>)]

FillB(time) ==
    [Coin |-> <<"E", "T", "H">>, Px |-> Num(3),
     Sz |-> Txt(<<"1">>), Side |-> <<"A">>, Time |-> time, Hash |-> "0xbbb",
     Tid |-> Num(2), Oid |-> Txt(<<"8">>), Fee |-> Num(0)]

\* A second fill of the transaction of FillA: same hash, its own fill id.
FillSameHash ==
    [FillA(Num(1)) EXCEPT !.Tid = Num(3), !.Sz = Num(1)]

\* A fill that carries neither fill id nor hash.
FillNoTid ==
    [FillB(Num(1)) EXCEPT !.Tid = Nil, !.Hash = ""]

\* A fill whose coin is missing.
FillNoCoin ==
    [FillB(Num(1)) EXCEPT !.Coin = <<>>, !.Tid = Num(4), !.Hash = "0xccc"]

Fills ==
    {FillA(t) : t \in TimeWires} \cup {FillB(t) : t \in TimeWires}
        \cup {FillSameHash, FillNoTid, FillNoCoin}

Headers == SeqsUpTo({"6", "0", "-", "x"}, MaxHeaderLen)

\* Statuses that are neither 200 nor 429: another success code, a client
\* error and a server error
OtherStatuses == {201, 404, 500}

\* An HTTP response: status, Retry-After header (<<>> when absent), whether
\* the body decodes as a JSON array of fills, and the fills it holds.
Responses ==
    {[StatusCode |-> StatusOK, RetryAfter |-> <<>>, decodes |-> TRUE, fills |-> f] :
        f \in SeqsUpTo(Fills, MaxFills)}
    \cup {[StatusCode |-> StatusOK, RetryAfter |-> <<>>, decodes |-> FALSE, fills |-> <<>>]}
    \cup {[StatusCode |-> StatusTooManyRequests, RetryAfter |-> h, decodes |-> d, fills |-> <<>>] :
        h \in Headers, d \in BOOLEAN}
    \cup {[StatusCode |-> st, RetryAfter |-> <<>>, decodes |-> d, fills |-> <<>>] :
        st \in OtherStatuses, d \in BOOLEAN}

NoResponse == [StatusCode |-> 0, RetryAfter |-> <<>>, decodes |-> FALSE, fills |-> <<>>]

(***************************************************************************)
(* Errors and results                                                      *)
(***************************************************************************)
NoErr == [kind |-> None, Exchange |-> "", RetryAfter |-> 0, cause |-> None]

Err(kind, cause) == [kind |-> kind, Exchange |-> "", RetryAfter |-> 0, cause |-> cause]

RateLimitError(exchange, retryAfter) ==
    [kind |-> "RateLimitError", Exchange |-> exchange, RetryAfter |-> retryAfter,
     cause |-> "rate limit exceeded"]

Result(trades, err) == [trades |-> trades, err |-> err]

(***************************************************************************)
(* FetchTrades, lines 109-126: keep the fills not before since (all of     *)
(* them for the zero watermark) and transform each.  One mutant filters      *)
(* nothing, the other also drops the fills exactly at since.               *)
(***************************************************************************)
SkipsFillNever(tradeTimestamp, sinceT) == FALSE

SkipsFillStrict(tradeTimestamp, sinceT) ==
    ~IsZero(sinceT) /\ ~Before(sinceT, tradeTimestamp)

SkipsFill(tradeTimestamp, sinceT) ==
    ~IsZero(sinceT) /\ Before(tradeTimestamp, sinceT)

RECURSIVE TransformFills(_, _, _)
TransformFills(apiFills, sinceT, accountUUID) ==
    IF apiFills = <<>> THEN <<>>
    ELSE IF SkipsFill(parseTimestamp(Head(apiFills).Time), sinceT)
         THEN TransformFills(Tail(apiFills), sinceT, accountUUID)
         ELSE <<transformFill(Head(apiFills), accountUUID)>>
                  \o TransformFills(Tail(apiFills), sinceT, accountUUID)

(***************************************************************************)
(* sort.Slice by Timestamp.Before: some permutation of the input in which  *)
(* no element is before its predecessor (the order of ties is not          *)
(* specified).  The mutant leaves the input as it is.                      *)
(***************************************************************************)
SortNothing(trades) == {trades}

SortByTimestamp(trades) ==
    {[i \in 1..Len(trades) |-> trades[p[i]]] : p \in
        {q \in Perms(Len(trades)) :
            \A i, j \in 1..Len(trades) :
                i < j => ~Before(trades[q[j]].Timestamp, trades[q[i]].Timestamp)}}

(***************************************************************************)
(* FetchTrades, lines 44-59: the guards before any request.  The mutant    *)
(* does not look at the context.                                           *)
(***************************************************************************)
GuardErrorNoCtx(c, a) ==
    IF ~IsUUID(a.ID) THEN Err("invalid account ID", a.ID)
    ELSE IF a.AccountIdentifier = "" THEN Err("account identifier (address) is required", None)
    ELSE NoErr

GuardErrorNoAddress(c, a) ==
    IF c # None THEN Err("ctx", c)
    ELSE IF ~IsUUID(a.ID) THEN Err("invalid account ID", a.ID)
    ELSE NoErr

GuardErrorAddressFirst(c, a) ==
    IF c # None THEN Err("ctx", c)
    ELSE IF a.AccountIdentifier = "" THEN Err("account identifier (address) is required", None)
    ELSE IF ~IsUUID(a.ID) THEN Err("invalid account ID", a.ID)
    ELSE NoErr

GuardError(c, a) ==
    IF c # None THEN Err("ctx", c)
    ELSE IF ~IsUUID(a.ID) THEN Err("invalid account ID", a.ID)
    ELSE IF a.AccountIdentifier = "" THEN Err("account identifier (address) is required", None)
    ELSE NoErr

(***************************************************************************)
(* iface.IsRateLimitError: the error is a *RateLimitError                  *)
(***************************************************************************)
IsRateLimitError(err) == err.kind = "RateLimitError"

\* The mutant reports every status other than 200 as a rate limit
HandleResponseAllRateLimited(r, sinceT, accountUUID) ==
    IF r.StatusCode # StatusOK
    THEN {Result(<<>>, RateLimitError("hyperliquid", parseRetryAfter(r.RetryAfter)))}
    ELSE IF ~r.decodes
    THEN {Result(<<>>, Err("failed to decode response", None))}
    ELSE {Result(t, NoErr) :
            t \in SortByTimestamp(TransformFills(r.fills, sinceT, accountUUID))}

(***************************************************************************)
(* FetchTrades, lines 88-133: what the call returns for a response         *)
(***************************************************************************)
HandleResponse(r, sinceT, accountUUID) ==
    IF r.StatusCode = StatusTooManyRequests
    THEN {Result(<<>>, RateLimitError("hyperliquid", parseRetryAfter(r.RetryAfter)))}
    ELSE IF r.StatusCode # StatusOK
    THEN {Result(<<>>, Err("API returned status", "not 200"))}
    ELSE IF ~r.decodes
    THEN {Result(<<>>, Err("failed to decode response", None))}
    ELSE {Result(t, NoErr) :
            t \in SortByTimestamp(TransformFills(r.fills, sinceT, accountUUID))}

(***************************************************************************)
(* FetchTrades as steps: the call up to the request, then either the       *)
(* transport fails (this includes a context cancelled in flight) or the    *)
(* response arrives and is processed.                                      *)
(***************************************************************************)
FetchInit ==
    /\ fetchPc = "idle"
    /\ ctxErr = None
    /\ account = [ID |-> ValidUUID, AccountIdentifier |-> "0x1234"]
    /\ since = ZeroTime
    /\ httpRequests = 0
    /\ httpResp = NoResponse
    /\ fetchOut = Result(<<>>, NoErr)

FetchTrades(c, a, s) ==
    /\ fetchPc = "idle"
    /\ ctxErr' = c
    /\ account' = a
    /\ since' = s
    /\ httpResp' = NoResponse
    /\ IF GuardError(c, a) # NoErr
       THEN /\ fetchPc' = "done"
            /\ fetchOut' = Result(<<>>, GuardError(c, a))
            /\ httpRequests' = httpRequests
       ELSE /\ fetchPc' = "waiting"
            /\ fetchOut' = fetchOut
            /\ httpRequests' = httpRequests + 1

FetchTransportError ==
    /\ fetchPc = "waiting"
    /\ fetchPc' = "done"
    /\ fetchOut' = Result(<<>>, Err("failed to fetch trades", "transport"))
    /\ UNCHANGED <<ctxErr, account, since, httpRequests, httpResp>>

\* The mutant asks again whenever an answer arrives (the request counter
\* wraps so that the state space stays finite).
FetchResponseLoops(r) ==
    /\ fetchPc = "waiting"
    /\ fetchPc' = "waiting"
    /\ httpResp' = r
    /\ httpRequests' = (httpRequests % 2) + 1
    /\ UNCHANGED <<ctxErr, account, since, fetchOut>>

FetchResponse(r) ==
    /\ fetchPc = "waiting"
    /\ fetchPc' = "done"
    /\ httpResp' = r
    /\ fetchOut' \in HandleResponse(r, since, account.ID)
    /\ UNCHANGED <<ctxErr, account, since, httpRequests>>


fetchUnchanged == UNCHANGED fetchVars

(***************************************************************************)
(* AddFundingPayments (db/funding_payment.go).  A funding payment is       *)
(* modelled by its natural key; the backend is a store that inserts a      *)
(* batch atomically and rejects it with a duplicate error when a key of    *)
(* the batch is already stored or occurs twice in the batch.  A request    *)
(* may also fail with an error that is not a duplicate error.              *)
(***************************************************************************)
VARIABLES
    store,        \* keys of the funding payments in the backend
    pc,           \* per caller: idle, running, done, crashed
    inputs,       \* per caller: the batch AddFundingPayments was called with
    cur,          \* per caller: inputs of the invocation about to send its insert
    stack,        \* per caller: the addFundingPaymentsIndividually loops in progress
    out,          \* per caller: what the call returned: [payments, err]
    storeBefore,  \* per caller: the store when the call started
    requests,     \* per caller: backend requests sent by the call
    batchDup,     \* per caller: the call's first insert failed as duplicate
    otherErrs,    \* per caller: inserts of the call that failed otherwise
    inserted,     \* per caller: records inserted by single-record inserts of the fallback
    calls         \* per caller: log of the finished calls

addVars == <<store, pc, inputs, cur, stack, out, storeBefore, requests, batchDup,
             otherErrs, inserted, calls>>

addUnchanged == UNCHANGED addVars

Procs == {1, 2}

Keys == 1..MaxKeys

Batches == SeqsUpTo(Keys, MaxBatch)

AddResult(payments, err) == [payments |-> payments, err |-> err]

Frame(in, i, results, errors) ==
    [inputs |-> in, i |-> i, results |-> results, errors |-> errors]

\* The backend's unique constraint: an insert of these records succeeds
Insertable(objects, st) ==
    /\ \A i, j \in DOMAIN objects : i # j => objects[i] # objects[j]
    /\ Range(objects) \cap st = {}

(***************************************************************************)
(* isDuplicateError: the error text holds "duplicate", "unique constraint" *)
(* or "already exists".  The mutant recognises no error.                   *)
(***************************************************************************)
DuplicateText == "duplicate key value violates unique constraint"
OtherText == "connection refused"

isDuplicateErrorNever(err) == FALSE

isDuplicateError(err) == err # None /\ err = DuplicateText

(***************************************************************************)
(* addFundingPaymentsIndividually, lines 129-143, entered with the result  *)
(* (payments, err) of the single-record call it was waiting for: an error  *)
(* is recorded and skipped, payments are appended, and the loop goes on    *)
(* with its next input or returns (results, nil) to the invocation that    *)
(* called it, which returns the same to its own caller.                    *)
(***************************************************************************)
\* Lines 131-137 on the loop's results; the mutant forgets the append
CollectNothing(results, payments, err) == results

Collect(results, payments, err) ==
    IF err # None THEN results ELSE results \o payments

RECURSIVE Unwind(_, _, _)
Unwind(st, payments, err) ==
    IF st = <<>>
    THEN [returned |-> TRUE, stack |-> <<>>, cur |-> <<>>,
          out |-> AddResult(payments, err)]
    ELSE LET f == st[Len(st)]
             results == Collect(f.results, payments, err)
             errors == IF err # None THEN Append(f.errors, err) ELSE f.errors
         IN IF f.i < Len(f.inputs)
            THEN [returned |-> FALSE,
                  stack |-> [st EXCEPT ![Len(st)] =
                                Frame(f.inputs, f.i + 1, results, errors)],
                  cur |-> <<f.inputs[f.i + 1]>>,
                  out |-> AddResult(<<>>, None)]
            ELSE Unwind(SubSeq(st, 1, Len(st) - 1), results, None)

(***************************************************************************)
(* AddFundingPayments, lines 111-120, after c.execute returned err for     *)
(* the insert of cur[p]                                                    *)
(***************************************************************************)
Executed(p, err, returning) ==
    LET first == requests[p] = 0 IN
    /\ requests' = [requests EXCEPT ![p] = @ + 1]
    /\ batchDup' = [batchDup EXCEPT ![p] = IF first THEN isDuplicateError(err) ELSE @]
    /\ otherErrs' = [otherErrs EXCEPT ![p] =
                        IF err # None /\ ~isDuplicateError(err) THEN @ + 1 ELSE @]
    /\ inserted' = [inserted EXCEPT ![p] =
                        IF err = None /\ ~first THEN @ \o returning ELSE @]
    /\ IF err # None /\ isDuplicateError(err)
       THEN \* return c.addFundingPaymentsIndividually(ctx, inputs): one more
            \* level of recursion.  Nothing in the code bounds the depth; the
            \* Go runtime ends the program with a stack overflow when the
            \* stack limit is reached, which MaxDepth stands for.
            IF Len(stack[p]) >= MaxDepth
            THEN /\ pc' = [pc EXCEPT ![p] = "crashed"]
                 /\ UNCHANGED <<cur, stack, out, calls>>
            ELSE /\ stack' = [stack EXCEPT ![p] =
                                Append(@, Frame(cur[p], 1, <<>>, <<>>))]
                 /\ cur' = [cur EXCEPT ![p] = <<cur[p][1]>>]
                 /\ UNCHANGED <<pc, out, calls>>
       ELSE LET u == IF err # None
                     THEN Unwind(stack[p], <<>>, err)
                     ELSE Unwind(stack[p], returning, None)
            IN /\ stack' = [stack EXCEPT ![p] = u.stack]
               /\ cur' = [cur EXCEPT ![p] = u.cur]
               /\ IF u.returned
                  THEN /\ pc' = [pc EXCEPT ![p] = "done"]
                       /\ out' = [out EXCEPT ![p] = u.out]
                       /\ calls' = [calls EXCEPT ![p] = Append(@,
                              [inputs |-> inputs[p], out |-> u.out,
                               storeBefore |-> storeBefore[p], storeAfter |-> store',
                               otherErrs |-> otherErrs'[p]])]
                  ELSE UNCHANGED <<pc, out, calls>>

AddInit ==
    /\ store \in SUBSET Keys
    /\ pc = [p \in Procs |-> "idle"]
    /\ inputs = [p \in Procs |-> <<>>]
    /\ cur = [p \in Procs |-> <<>>]
    /\ stack = [p \in Procs |-> <<>>]
    /\ out = [p \in Procs |-> AddResult(<<>>, None)]
    /\ storeBefore = [p \in Procs |-> {}]
    /\ requests = [p \in Procs |-> 0]
    /\ batchDup = [p \in Procs |-> FALSE]
    /\ otherErrs = [p \in Procs |-> 0]
    /\ inserted = [p \in Procs |-> <<>>]
    /\ calls = [p \in Procs |-> <<>>]

\* AddFundingPayments is called: lines 64-67, and the request is built
AddFundingPayments(p, batch) ==
    /\ pc[p] \in {"idle", "done"}
    /\ Len(calls[p]) < MaxCalls
    /\ inputs' = [inputs EXCEPT ![p] = batch]
    /\ storeBefore' = [storeBefore EXCEPT ![p] = store]
    /\ requests' = [requests EXCEPT ![p] = 0]
    /\ batchDup' = [batchDup EXCEPT ![p] = FALSE]
    /\ otherErrs' = [otherErrs EXCEPT ![p] = 0]
    /\ inserted' = [inserted EXCEPT ![p] = <<>>]
    /\ stack' = [stack EXCEPT ![p] = <<>>]
    /\ store' = store
    /\ IF Len(batch) = 0
       THEN /\ pc' = [pc EXCEPT ![p] = "done"]
            /\ out' = [out EXCEPT ![p] = AddResult(<<>>, None)]
            /\ cur' = [cur EXCEPT ![p] = <<>>]
            /\ calls' = [calls EXCEPT ![p] = Append(@,
                   [inputs |-> batch, out |-> AddResult(<<>>, None),
                    storeBefore |-> store, storeAfter |-> store, otherErrs |-> 0])]
       ELSE /\ pc' = [pc EXCEPT ![p] = "running"]
            /\ cur' = [cur EXCEPT ![p] = batch]
            /\ UNCHANGED <<out, calls>>

\* The backend inserts cur[p] and returns the inserted records
InsertSucceeds(p) ==
    /\ pc[p] = "running"
    /\ Insertable(cur[p], store)
    /\ store' = store \cup Range(cur[p])
    /\ Executed(p, None, cur[p])
    /\ UNCHANGED <<inputs, storeBefore>>

\* The backend rejects the insert of cur[p] with a unique-constraint error
InsertDuplicate(p) ==
    /\ pc[p] = "running"
    /\ ~Insertable(cur[p], store)
    /\ store' = store
    /\ Executed(p, DuplicateText, <<>>)
    /\ UNCHANGED <<inputs, storeBefore>>

\* The request fails otherwise (network, cancelled context, backend down)
InsertFails(p) ==
    /\ pc[p] = "running"
    /\ store' = store
    /\ Executed(p, OtherText, <<>>)
    /\ UNCHANGED <<inputs, storeBefore>>

(***************************************************************************)
(* LatestTrade (db/trade.go) and CreatePositionTrades (db/position.go).    *)
(* One caller invokes them one call at a time; the variables hold its      *)
(* current call.  An account is an opaque id, a trade row of the backend   *)
(* response is its account and timestamp, an allocation is its position    *)
(* and trade.                                                              *)
(***************************************************************************)
VARIABLES
    dbPc,          \* position of the current call: idle, waiting, done
    dbOp,          \* the operation called
    dbIn,          \* its input list
    dbRequests,    \* backend requests the call has sent
    dbOut,         \* what it returned: [trades, positionTrades, err]
    emptyReturned  \* history: the operations that have returned for an empty input

\* The rows of the response that the current LatestTrade call decoded,
\* <<>> before
VARIABLE dbRows

dbVars == <<dbPc, dbOp, dbIn, dbRequests, dbOut>>

DbAccounts == {"acct-a", "acct-b"}

AccountLists == SeqsUpTo(DbAccounts, MaxIDs)

TradeRows == {[ExchangeAccountID |-> a, Timestamp |-> t] : a \in DbAccounts, t \in 1..MaxTs}

TradeResponses == SeqsUpTo(TradeRows, MaxRows)

PositionTradeInputs ==
    {[PositionID |-> "pos-1", TradeID |-> t] : t \in {"trade-1", "trade-2"}}

PositionTradeLists == SeqsUpTo(PositionTradeInputs, MaxAllocs)

EmptyMap == [a \in {} |-> [ExchangeAccountID |-> "", Timestamp |-> ZeroTime]]

DbResult(trades, positionTrades, err) ==
    [trades |-> trades, positionTrades |-> positionTrades, err |-> err]

\* The mutant keeps the last row of each account
LatestByAccountLast(rows) ==
    [a \in {rows[i].ExchangeAccountID : i \in DOMAIN rows} |->
        rows[CHOOSE i \in DOMAIN rows :
                /\ rows[i].ExchangeAccountID = a
                /\ \A j \in (i + 1)..Len(rows) : rows[j].ExchangeAccountID # a]]

\* The map built from the response: for each account the first of its rows
LatestByAccount(rows) ==
    [a \in {rows[i].ExchangeAccountID : i \in DOMAIN rows} |->
        rows[CHOOSE i \in DOMAIN rows :
                /\ rows[i].ExchangeAccountID = a
                /\ \A j \in 1..(i - 1) : rows[j].ExchangeAccountID # a]]

DbInit ==
    /\ dbPc = "idle"
    /\ dbOp = None
    /\ dbIn = <<>>
    /\ dbRequests = 0
    /\ dbOut = DbResult(EmptyMap, <<>>, None)
    /\ emptyReturned = {}

\* What a call does up to its request: an empty input returns at once.  The
\* mutant sends the request for every input.
DbCallAlwaysAsks(op, in) ==
    /\ dbPc \in {"idle", "done"}
    /\ dbOp' = op
    /\ dbIn' = in
    /\ dbOut' = DbResult(EmptyMap, <<>>, None)
    /\ dbPc' = "waiting"
    /\ dbRequests' = 1

DbCall(op, in) ==
    /\ dbPc \in {"idle", "done"}
    /\ dbOp' = op
    /\ dbIn' = in
    /\ dbOut' = DbResult(EmptyMap, <<>>, None)
    /\ IF Len(in) = 0
       THEN dbPc' = "done" /\ dbRequests' = 0
       ELSE dbPc' = "waiting" /\ dbRequests' = 1

LatestTrade(exchangeAccountIDs) == DbCall("LatestTrade", exchangeAccountIDs)

LatestTradeResponse(rows) ==
    /\ dbPc = "waiting" /\ dbOp = "LatestTrade"
    /\ dbPc' = "done"
    /\ dbOut' = DbResult(LatestByAccount(rows), <<>>, None)
    /\ UNCHANGED <<dbOp, dbIn, dbRequests>>

LatestTradeError ==
    /\ dbPc = "waiting" /\ dbOp = "LatestTrade"
    /\ dbPc' = "done"
    /\ dbOut' = DbResult(EmptyMap, <<>>, "failed to get latest trades")
    /\ UNCHANGED <<dbOp, dbIn, dbRequests>>

CreatePositionTrades(in) == DbCall("CreatePositionTrades", in)

CreatePositionTradesResponse ==
    /\ dbPc = "waiting" /\ dbOp = "CreatePositionTrades"
    /\ dbPc' = "done"
    /\ dbOut' = DbResult(EmptyMap, dbIn, None)
    /\ UNCHANGED <<dbOp, dbIn, dbRequests>>

CreatePositionTradesError ==
    /\ dbPc = "waiting" /\ dbOp = "CreatePositionTrades"
    /\ dbPc' = "done"
    /\ dbOut' = DbResult(EmptyMap, <<>>, "failed to create position trades")
    /\ UNCHANGED <<dbOp, dbIn, dbRequests>>

(***************************************************************************)
(* Concurrent FetchTrades calls on one Client.  The Client struct and the  *)
(* account descriptors are objects shared by the callers; the upstream     *)
(* answers a userFills request by the address it names.  Each caller runs  *)
(* the steps of FetchTrades with its own arguments and locals.             *)
(***************************************************************************)
VARIABLES
    client,       \* the Client struct: [baseURL, timeout]
    acctObj,      \* the account descriptors, by pointer
    upstream,     \* what the upstream answers, by address
    cPc,          \* per caller: idle, waiting, done
    cArgs,        \* per caller: the arguments [ctx, account, since]
    cLocal,       \* per caller: accountUUID and the request sent
    cFailed,      \* per caller: the transport failed
    cOut          \* per caller: what FetchTrades returned

concVars == <<client, acctObj, upstream, cPc, cArgs, cLocal, cFailed, cOut>>

Callers == {1, 2}

NewClient == [baseURL |-> "https://api.hyperliquid.xyz", timeout |-> 30 * Second]

AcctPtrs == {1, 2, 3}

AccountObjects ==
    <<[ID |-> ValidUUID, AccountIdentifier |-> "0x1234"],
      [ID |-> ValidUUID, AccountIdentifier |-> "0x5678"],
      [ID |-> "not-a-uuid", AccountIdentifier |-> "0x1234"]>>

Addresses == {"0x1234", "0x5678"}

OKResponse(fills) ==
    [StatusCode |-> StatusOK, RetryAfter |-> <<>>, decodes |-> TRUE, fills |-> fills]

NotFoundResponse ==
    [StatusCode |-> 404, RetryAfter |-> <<>>, decodes |-> FALSE, fills |-> <<>>]

UpstreamAnswers ==
    {OKResponse(<<FillA(Num(2)), FillB(Num(1))>>),
     OKResponse(<<FillB(Num(2))>>),
     [StatusCode |-> StatusTooManyRequests, RetryAfter |-> <<"6">>,
      decodes |-> FALSE, fills |-> <<>>]}

NoRequest == [url |-> <<>>, user |-> ""]

\* lines 62-73: POST baseURL + "/info" with the address as user
RequestOf(cl, a) == [url |-> <<cl.baseURL, "/info">>, user |-> a.AccountIdentifier]

\* The upstream serves the info endpoint only
Serve(up, req) ==
    IF req.url = <<NewClient.baseURL, "/info">> /\ req.user \in DOMAIN up
    THEN up[req.user]
    ELSE NotFoundResponse

\* FetchTrades only reads the fields of its receiver.  The mutant appends
\* the path to the stored base URL.
ClientAppendsPath(cl) == [cl EXCEPT !.baseURL = "https://api.hyperliquid.xyz/info"]

ClientAfterRequest(cl) == cl

ConcInit ==
    /\ client = NewClient
    /\ acctObj = AccountObjects
    /\ upstream \in [Addresses -> UpstreamAnswers]
    /\ cPc = [c \in Callers |-> "idle"]
    /\ cArgs = [c \in Callers |-> [ctx |-> None, account |-> 1, since |-> ZeroTime]]
    /\ cLocal = [c \in Callers |-> [accountUUID |-> "", req |-> NoRequest]]
    /\ cFailed = [c \in Callers |-> FALSE]
    /\ cOut = [c \in Callers |-> Result(<<>>, NoErr)]

\* lines 44-86: the guards, then the request is built and sent
ConcFetchTrades(c, ctx, ptr, s) ==
    /\ cPc[c] = "idle"
    /\ cArgs' = [cArgs EXCEPT ![c] = [ctx |-> ctx, account |-> ptr, since |-> s]]
    /\ IF GuardError(ctx, acctObj[ptr]) # NoErr
       THEN /\ cPc' = [cPc EXCEPT ![c] = "done"]
            /\ cOut' = [cOut EXCEPT ![c] = Result(<<>>, GuardError(ctx, acctObj[ptr]))]
            /\ UNCHANGED <<client, cLocal>>
       ELSE /\ cPc' = [cPc EXCEPT ![c] = "waiting"]
            /\ cLocal' = [cLocal EXCEPT ![c] =
                            [accountUUID |-> acctObj[ptr].ID,
                             req |-> RequestOf(client, acctObj[ptr])]]
            /\ client' = ClientAfterRequest(client)
            /\ cOut' = cOut
    /\ UNCHANGED <<acctObj, upstream, cFailed>>

\* lines 81-84
ConcTransportError(c) ==
    /\ cPc[c] = "waiting"
    /\ cPc' = [cPc EXCEPT ![c] = "done"]
    /\ cFailed' = [cFailed EXCEPT ![c] = TRUE]
    /\ cOut' = [cOut EXCEPT ![c] = Result(<<>>, Err("failed to fetch trades", "transport"))]
    /\ UNCHANGED <<client, acctObj, upstream, cArgs, cLocal>>

\* lines 88-133
ConcResponse(c) ==
    /\ cPc[c] = "waiting"
    /\ cPc' = [cPc EXCEPT ![c] = "done"]
    /\ \E res \in HandleResponse(Serve(upstream, cLocal[c].req), cArgs[c].since,
                                 cLocal[c].accountUUID) :
          cOut' = [cOut EXCEPT ![c] = res]
    /\ UNCHANGED <<client, acctObj, upstream, cArgs, cLocal, cFailed>>

(***************************************************************************)
(* FetchFundingPayments of the Hyperliquid adapter: one userFunding        *)
(* request, the validation of FetchTrades, then per record the since       *)
(* filter and the transform, then the sort by timestamp.  A record of the  *)
(* upstream list is its hash, its time in milliseconds, its coin and its   *)
(* amount.                                                                 *)
(***************************************************************************)
VARIABLES
    fundPc,        \* position of the call: idle, waiting, done
    fundArgs,      \* its arguments [ctx, account, since]
    fundRequests,  \* HTTP requests the call has sent
    fundResp,      \* the upstream's response, NoFundingResponse before it arrives
    fundOut        \* what it returned: [payments, err]

fundVars == <<fundPc, fundArgs, fundRequests, fundResp, fundOut>>

FundingCoins ==
    {<<"B", "T", "C">>, <<"B", "T", "C", "-", "U", "S", "D", "C">>,
     <<"E", "T", "H", "-", "U", "S", "D", "T">>, <<>>}

FundingWires ==
    {[Hash |-> "0x123", Time |-> t, Coin |-> c, USDC |-> Txt(<<"5">>)] :
        t \in 1..MaxTs, c \in FundingCoins}

FundingResponses ==
    {[StatusCode |-> StatusOK, RetryAfter |-> <<>>, decodes |-> TRUE, payments |-> f] :
        f \in SeqsUpTo(FundingWires, MaxFills)}
    \cup {[StatusCode |-> StatusOK, RetryAfter |-> <<>>, decodes |-> FALSE, payments |-> <<>>],
          [StatusCode |-> StatusTooManyRequests, RetryAfter |-> <<"6">>,
           decodes |-> FALSE, payments |-> <<>>],
          [StatusCode |-> 500, RetryAfter |-> <<>>, decodes |-> FALSE, payments |-> <<>>]}

NoFundingResponse ==
    [StatusCode |-> 0, RetryAfter |-> <<>>, decodes |-> FALSE, payments |-> <<>>]

FundingResult(payments, err) == [payments |-> payments, err |-> err]

\* The payment identifier: "<timestamp in milliseconds>_<base asset>".  The
\* mutant leaves the asset out.
PaymentIDTimestampOnly(timestamp, baseAsset) == Itoa(timestamp)

PaymentID(timestamp, baseAsset) == Itoa(timestamp) \o <<"_">> \o baseAsset

transformFundingPayment(apiPayment, accountUUID) ==
    LET pair == parseAssetPair(apiPayment.Coin) IN
    [PaymentID |-> PaymentID(apiPayment.Time, pair[1]),
     BaseAsset |-> pair[1],
     QuoteAsset |-> pair[2],
     Amount |-> convertToString(apiPayment.USDC),
     Timestamp |-> apiPayment.Time,
     ExchangeAccountID |-> accountUUID]

\* The records of the response that pass the since filter
FundingKept(apiPayments, sinceT) ==
    SelectSeq(apiPayments, LAMBDA p : ~SkipsFill(p.Time, sinceT))

HandleFundingResponse(r, sinceT, accountUUID) ==
    IF r.StatusCode = StatusTooManyRequests
    THEN {FundingResult(<<>>, RateLimitError("hyperliquid", parseRetryAfter(r.RetryAfter)))}
    ELSE IF r.StatusCode # StatusOK
    THEN {FundingResult(<<>>, Err("API returned status", "not 200"))}
    ELSE IF ~r.decodes
    THEN {FundingResult(<<>>, Err("failed to decode response", None))}
    ELSE LET kept == FundingKept(r.payments, sinceT) IN
         IF \E i \in DOMAIN kept : parseAssetPair(kept[i].Coin)[1] = <<>>
         THEN {FundingResult(<<>>, Err("MissingRequiredField", "base asset"))}
         ELSE {FundingResult(t, NoErr) :
                 t \in SortByTimestamp(
                         [i \in DOMAIN kept |-> transformFundingPayment(kept[i], accountUUID)])}

FundInit ==
    /\ fundPc = "idle"
    /\ fundArgs = [ctx |-> None, account |-> [ID |-> ValidUUID, AccountIdentifier |-> "0x1234"],
                   since |-> ZeroTime]
    /\ fundRequests = 0
    /\ fundResp = NoFundingResponse
    /\ fundOut = FundingResult(<<>>, NoErr)

FetchFundingPayments(c, a, s) ==
    /\ fundPc = "idle"
    /\ fundArgs' = [ctx |-> c, account |-> a, since |-> s]
    /\ fundResp' = fundResp
    /\ IF GuardError(c, a) # NoErr
       THEN /\ fundPc' = "done"
            /\ fundOut' = FundingResult(<<>>, GuardError(c, a))
            /\ fundRequests' = fundRequests
       ELSE /\ fundPc' = "waiting"
            /\ fundOut' = fundOut
            /\ fundRequests' = fundRequests + 1

FundingTransportError ==
    /\ fundPc = "waiting"
    /\ fundPc' = "done"
    /\ fundOut' = FundingResult(<<>>, Err("failed to fetch funding payments", "transport"))
    /\ UNCHANGED <<fundArgs, fundRequests, fundResp>>

FundingResponse(r) ==
    /\ fundPc = "waiting"
    /\ fundPc' = "done"
    /\ fundResp' = r
    /\ fundOut' \in HandleFundingResponse(r, fundArgs.since, fundArgs.account.ID)
    /\ UNCHANGED <<fundArgs, fundRequests>>

(***************************************************************************)
(* Calls of the pure helpers: the variables hold the latest call, its      *)
(* argument and its result.                                                *)
(***************************************************************************)
VARIABLES
    callOp,     \* the helper called, None before the first call
    callArg,    \* its argument
    callRet     \* its result

callVars == <<callOp, callArg, callRet>>

\* Side codes as the upstream may send them: the known codes in three
\* spellings and some unknown ones, padded with whitespace, and every text
\* of up to MaxSideLen characters of a small alphabet
SideWords ==
    {<<"B">>, <<"b">>, <<"B", "U", "Y">>, <<"b", "u", "y">>,
     <<"B", "u", "y">>, <<"L", "O", "N", "G">>, <<"l", "o", "n", "g">>,
     <<"L", "o", "n", "g">>, <<"S">>, <<"s">>, <<"S", "E", "L", "L">>,
     <<"s", "e", "l", "l">>, <<"S", "e", "l", "l">>,
     <<"S", "H", "O", "R", "T">>, <<"s", "h", "o", "r", "t">>,
     <<"S", "h", "o", "r", "t">>, <<"A">>, <<"a">>,
     <<"C", "L", "O", "S", "E">>, <<"c", "l", "o", "s", "e">>,
     <<"C", "l", "o", "s", "e">>,
     <<"L", "I", "Q", "U", "I", "D", "A", "T", "I", "O", "N">>,
     <<"l", "i", "q", "u", "i", "d", "a", "t", "i", "o", "n">>,
     <<"L", "i", "q", "u", "i", "d", "a", "t", "i", "o", "n">>, <<>>,
     <<"x">>, <<"B", "U", "Y", "E", "R">>, <<"h", "o", "l", "d">>,
     <<"b", " ", "s">>, <<"a", "s", "k">>, <<"b", "i", "d">>,
     <<"S", "E", "L", "L", "S">>}

SidePads == {<<>>, <<" ">>, <<"\t">>}

SideInputs ==
    {l \o w \o r : l \in SidePads, w \in SideWords, r \in SidePads}
        \cup SeqsUpTo({"b", "S", "a", "A", " ", "x"}, MaxSideLen)

CallInit ==
    /\ callOp = None
    /\ callArg = <<>>
    /\ callRet = ""

NormalizeSideCall(side) ==
    /\ callOp' = "normalizeSide"
    /\ callArg' = side
    /\ callRet' = normalizeSide(side)

\* Coins: the two of the documentation and every text of up to MaxCoinLen
\* characters over two letters and the separator
CoinInputs ==
    {<<"B", "T", "C", "-", "U", "S", "D", "C">>, <<"B", "T", "C">>}
        \cup SeqsUpTo({"B", "U", "-"}, MaxCoinLen)

ParseAssetPairCall(coin) ==
    /\ callOp' = "parseAssetPair"
    /\ callArg' = coin
    /\ callRet' = parseAssetPair(coin)

\* Values to convert: numbers with up to MaxFracZeros zeros between the
\* point and their last digit, and texts
Fracs ==
    {<<>>, <<"5">>, <<"2", "5">>}
        \cup {Zeros(n) \o <<d>> : n \in 0..MaxFracZeros, d \in {"1", "9"}}

ConvertInputs ==
    {Dec(whole, frac) : whole \in {0, 10}, frac \in Fracs}
        \cup {Txt(<<"1", "0", ".", "5", "0">>), Txt(<<"5">>), Txt(<<>>)}

ConvertToStringCall(v) ==
    /\ callOp' = "convertToString"
    /\ callArg' = v
    /\ callRet' = convertToString(v)

ModelsConvertToStringCall(v) ==
    /\ callOp' = "models.convertToString"
    /\ callArg' = v
    /\ callRet' = modelsConvertToString(v)

(***************************************************************************)
(* The exchange registry: GetClient, ListAvailableExchanges and            *)
(* Client.Name.  Names are texts.                                          *)
(***************************************************************************)
MaxNameLen == 4

HyperliquidName == <<"h", "y", "p", "e", "r", "l", "i", "q", "u", "i", "d">>

\* Client.Name
Name(c) == HyperliquidName

\* The nil ExchangeClient and the nil error
NilClient == [baseURL |-> "nil", timeout |-> 0]

NilError == [is |-> None, name |-> <<>>]

\* fmt.Errorf("%w: %s", ErrExchangeNotFound, name)
ErrExchangeNotFound == "exchange not found"

WrapError(sentinel, name) == [is |-> sentinel, name |-> name]

ErrorsIs(err, sentinel) == err.is = sentinel

\* The mutant looks the name up after trimming it
GetClientTrimsName(name) ==
    IF TrimSpace(name) = HyperliquidName
    THEN [client |-> NewClient, err |-> NilError]
    ELSE [client |-> NilClient, err |-> WrapError(ErrExchangeNotFound, name)]

GetClient(name) ==
    IF name = HyperliquidName
    THEN [client |-> NewClient, err |-> NilError]
    ELSE [client |-> NilClient, err |-> WrapError(ErrExchangeNotFound, name)]

ListAvailableExchanges == <<HyperliquidName>>

\* Names asked for: the registered one, near misses, names of exchanges not
\* yet registered, the empty name, and every text of up to MaxNameLen
\* characters over three letters
NameInputs ==
    {HyperliquidName,
     <<"H">> \o Tail(HyperliquidName), HyperliquidName \o <<" ">>,
     <<" ">> \o HyperliquidName, HyperliquidName \o HyperliquidName,
     <<"l", "i", "g", "h", "t", "e", "r">>, <<"d", "r", "i", "f", "t">>,
     <<"n", "o", "n", "e", "x", "i", "s", "t", "e", "n", "t">>}
        \cup SeqsUpTo({"h", "y", "p"}, MaxNameLen)

GetClientCall(name) ==
    /\ callOp' = "GetClient"
    /\ callArg' = name
    /\ callRet' = GetClient(name)

(***************************************************************************)
(* What a FetchTrades call sends and when its context ends: the body of    *)
(* its request (lines 62-65), and ctx.Err() at the moment the response has *)
(* been received, which FetchTrades does not look at.                      *)
(***************************************************************************)
VARIABLES
    sentBody,       \* the body of the request sent, NoBody before
    ctxAfterPage    \* ctx.Err() once the response has been received

pageVars == <<sentBody, ctxAfterPage>>

NoBody == [type |-> "", user |-> ""]

RequestBody(address) == [type |-> "userFills", user |-> address]

PageInit ==
    /\ sentBody = NoBody
    /\ ctxAfterPage = None

(***************************************************************************)
(* Specifications                                                          *)
(***************************************************************************)
vars == <<fetchVars, addVars, dbVars, emptyReturned, concVars, fundVars, callVars, pageVars, dbRows>>

OnlyFetch == UNCHANGED <<addVars, dbVars, emptyReturned, concVars, fundVars, callVars, pageVars, dbRows>>

OnlyAdd == UNCHANGED <<fetchVars, dbVars, emptyReturned, concVars, fundVars, callVars, pageVars, dbRows>>

\* The other components at rest
ConcIdle == ConcInit /\ upstream = [a \in Addresses |-> OKResponse(<<FillB(Num(2))>>)]

FetchCall == 
    /\ \E c \in CtxErrs, a \in Accounts, s \in Sinces : FetchTrades(c, a, s)
    /\ OnlyFetch

FetchFail == FetchTransportError /\ OnlyFetch

FetchReply == (\E r \in Responses : FetchResponse(r)) /\ OnlyFetch

InitFetch == FetchInit /\ AddInit /\ store = {} /\ DbInit /\ ConcIdle /\ FundInit /\ CallInit /\ PageInit /\ dbRows = <<>>

NextFetch == FetchCall \/ FetchFail \/ FetchReply

\* One FetchTrades call against every upstream behaviour
SpecFetch == InitFetch /\ [][NextFetch]_vars

\* The HTTP client has a timeout (NewClient), so a request that was sent is
\* answered or fails.
SpecFetchFair == InitFetch /\ [][NextFetch]_vars /\ WF_vars(FetchFail \/ FetchReply)

OnlyPage == UNCHANGED <<addVars, dbVars, emptyReturned, concVars, fundVars, callVars, dbRows>>

PageCall ==
    /\ \E c \in CtxErrs, a \in Accounts, s \in Sinces :
          /\ FetchTrades(c, a, s)
          /\ sentBody' = IF GuardError(c, a) = NoErr
                         THEN RequestBody(a.AccountIdentifier) ELSE sentBody
    /\ ctxAfterPage' = ctxAfterPage
    /\ OnlyPage

PageFail == FetchTransportError /\ UNCHANGED pageVars /\ OnlyPage

\* The response arrives; the context may end before the call goes on
PageReply ==
    /\ \E r \in Responses : FetchResponse(r)
    /\ ctxAfterPage' \in CtxErrs
    /\ sentBody' = sentBody
    /\ OnlyPage

NextPages == PageCall \/ PageFail \/ PageReply

\* One FetchTrades call, with the request it sends and the context's end
\* after the response
SpecPages == InitFetch /\ [][NextPages]_vars

AddCall ==
    /\ pc[1] = "idle"
    /\ \E batch \in Batches : AddFundingPayments(1, batch)
    /\ OnlyAdd

AddCallInSequence ==
    /\ \E batch \in Batches : AddFundingPayments(1, batch)
    /\ OnlyAdd

AddInsertSucceeds == InsertSucceeds(1) /\ OnlyAdd

AddInsertDuplicate == InsertDuplicate(1) /\ OnlyAdd

AddInsertFails == InsertFails(1) /\ OnlyAdd

InitAdd == FetchInit /\ AddInit /\ DbInit /\ ConcIdle /\ FundInit /\ CallInit /\ PageInit /\ dbRows = <<>>

NextAdd == AddCall \/ AddInsertSucceeds \/ AddInsertDuplicate \/ AddInsertFails

\* One AddFundingPayments call against every store and backend behaviour
SpecAdd == InitAdd /\ [][NextAdd]_vars

NextAddTwice ==
    AddCallInSequence \/ AddInsertSucceeds \/ AddInsertDuplicate \/ AddInsertFails

\* One caller making up to MaxCalls AddFundingPayments calls in sequence
SpecAddTwice == InitAdd /\ [][NextAddTwice]_vars

BothAddCall ==
    /\ \E p \in Procs, batch \in Batches : pc[p] = "idle" /\ AddFundingPayments(p, batch)
    /\ OnlyAdd

BothInsertSucceeds == (\E p \in Procs : InsertSucceeds(p)) /\ OnlyAdd

BothInsertDuplicate == (\E p \in Procs : InsertDuplicate(p)) /\ OnlyAdd

BothInsertFails == (\E p \in Procs : InsertFails(p)) /\ OnlyAdd

InitAddBoth == InitAdd /\ store = {}

NextAddBoth ==
    BothAddCall \/ BothInsertSucceeds \/ BothInsertDuplicate \/ BothInsertFails

\* Two callers, one AddFundingPayments call each, on an empty store, in
\* every interleaving of their requests
SpecAddBoth == InitAddBoth /\ [][NextAddBoth]_vars

\* A call that returns for an empty input is noted in emptyReturned
NoteReturn(op, in) ==
    emptyReturned' = IF Len(in) = 0 THEN emptyReturned \cup {op} ELSE emptyReturned

DbLatestCall ==
    /\ pc[1] = "idle"
    /\ \E ids \in AccountLists : LatestTrade(ids) /\ NoteReturn("LatestTrade", ids)
    /\ dbRows' = <<>>
    /\ UNCHANGED <<fetchVars, addVars, concVars, fundVars, callVars, pageVars>>

DbLatestReply ==
    /\ \E rows \in TradeResponses : LatestTradeResponse(rows) /\ dbRows' = rows
    /\ UNCHANGED <<fetchVars, addVars, emptyReturned, concVars, fundVars, callVars, pageVars>>

DbLatestFail == LatestTradeError /\ UNCHANGED <<fetchVars, addVars, emptyReturned, concVars, fundVars, callVars, pageVars, dbRows>>

DbCreateCall ==
    /\ pc[1] = "idle"
    /\ \E in \in PositionTradeLists :
          CreatePositionTrades(in) /\ NoteReturn("CreatePositionTrades", in)
    /\ dbRows' = <<>>
    /\ UNCHANGED <<fetchVars, addVars, concVars, fundVars, callVars, pageVars>>

DbCreateReply ==
    CreatePositionTradesResponse /\ UNCHANGED <<fetchVars, addVars, emptyReturned, concVars, fundVars, callVars, pageVars, dbRows>>

DbCreateFail ==
    CreatePositionTradesError /\ UNCHANGED <<fetchVars, addVars, emptyReturned, concVars, fundVars, callVars, pageVars, dbRows>>

\* The caller turns to AddFundingPayments: dbVars, which hold its current
\* LatestTrade or CreatePositionTrades call, are cleared.
DbAddCall ==
    /\ pc[1] = "idle"
    /\ dbPc \in {"idle", "done"}
    /\ \E batch \in Batches :
          AddFundingPayments(1, batch) /\ NoteReturn("AddFundingPayments", batch)
    /\ dbPc' = "idle"
    /\ dbOp' = None
    /\ dbIn' = <<>>
    /\ dbRequests' = 0
    /\ dbOut' = DbResult(EmptyMap, <<>>, None)
    /\ dbRows' = <<>>
    /\ UNCHANGED <<fetchVars, concVars, fundVars, callVars, pageVars>>

NextDb ==
    \/ DbLatestCall \/ DbLatestReply \/ DbLatestFail
    \/ DbCreateCall \/ DbCreateReply \/ DbCreateFail
    \/ DbAddCall \/ AddInsertSucceeds \/ AddInsertDuplicate \/ AddInsertFails

\* One caller of the db client: LatestTrade and CreatePositionTrades calls
\* one after the other, then one AddFundingPayments call
SpecDb == InitAdd /\ [][NextDb]_vars

OnlyConc == UNCHANGED <<fetchVars, addVars, dbVars, emptyReturned, fundVars, callVars, pageVars, dbRows>>

ConcCall ==
    /\ \E c \in Callers, ctx \in CtxErrs, ptr \in AcctPtrs, s \in Sinces :
          ConcFetchTrades(c, ctx, ptr, s)
    /\ OnlyConc

ConcFail == (\E c \in Callers : ConcTransportError(c)) /\ OnlyConc

ConcReply == (\E c \in Callers : ConcResponse(c)) /\ OnlyConc

InitConc == FetchInit /\ AddInit /\ store = {} /\ DbInit /\ ConcInit /\ FundInit /\ CallInit /\ PageInit /\ dbRows = <<>>

NextConc == ConcCall \/ ConcFail \/ ConcReply

\* Two callers, one FetchTrades call each, in every interleaving
SpecConc == InitConc /\ [][NextConc]_vars

OnlyFund == UNCHANGED <<fetchVars, addVars, dbVars, emptyReturned, concVars, callVars, pageVars, dbRows>>

FundCall ==
    /\ \E c \in CtxErrs, a \in Accounts, s \in Sinces : FetchFundingPayments(c, a, s)
    /\ OnlyFund

FundFail == FundingTransportError /\ OnlyFund

FundReply == (\E r \in FundingResponses : FundingResponse(r)) /\ OnlyFund

NextFund == FundCall \/ FundFail \/ FundReply

\* One FetchFundingPayments call against every upstream behaviour
SpecFund == InitFetch /\ [][NextFund]_vars

OnlyCall == UNCHANGED <<fetchVars, addVars, dbVars, emptyReturned, concVars, fundVars, pageVars, dbRows>>

SideCall == (\E side \in SideInputs : NormalizeSideCall(side)) /\ OnlyCall

NextSide == SideCall

\* normalizeSide applied to every side code of SideInputs
SpecSide == InitFetch /\ [][NextSide]_vars

PairCall == (\E coin \in CoinInputs : ParseAssetPairCall(coin)) /\ OnlyCall

NextPair == PairCall

\* parseAssetPair applied to every coin of CoinInputs
SpecPair == InitFetch /\ [][NextPair]_vars

ConvertCall == (\E v \in ConvertInputs : ConvertToStringCall(v)) /\ OnlyCall

ModelsConvertCall == (\E v \in ConvertInputs : ModelsConvertToStringCall(v)) /\ OnlyCall

NextConvert == ConvertCall \/ ModelsConvertCall

\* Both convertToString functions applied to every value of ConvertInputs
SpecConvert == InitFetch /\ [][NextConvert]_vars

RegistryCall == (\E name \in NameInputs : GetClientCall(name)) /\ OnlyCall

NextRegistry == RegistryCall

\* GetClient applied to every name of NameInputs
SpecRegistry == InitFetch /\ [][NextRegistry]_vars


(***************************************************************************)
(* Properties of FetchTrades                                               *)
(***************************************************************************)
FetchSucceeded == fetchPc = "done" /\ fetchOut.err = NoErr

\* The upstream fills of the response that are not before the watermark
QualifyingFills ==
    SelectSeq(httpResp.fills,
              LAMBDA f : since = ZeroTime \/ parseTimestamp(f.Time) >= since)

IsPermutationOf(a, b) ==
    /\ Len(a) = Len(b)
    /\ \E q \in Perms(Len(a)) : \A i \in 1..Len(a) : a[i] = b[q[i]]

\* C1: the sequence returned by a successful FetchTrades is non-decreasing by
\* timestamp: for all i < j, result[i].Timestamp <= result[j].Timestamp.
C1_SortedByTimestamp ==
    FetchSucceeded =>
        \A i, j \in 1..Len(fetchOut.trades) :
            i < j => fetchOut.trades[i].Timestamp <= fetchOut.trades[j].Timestamp

\* C1 witness: a successful call whose upstream sent a later fill before an
\* earlier one, both returned.
C1_Witness ==
    /\ FetchSucceeded
    /\ Len(httpResp.fills) = 2
    /\ Len(fetchOut.trades) = 2
    /\ parseTimestamp(httpResp.fills[1].Time) > parseTimestamp(httpResp.fills[2].Time)

\* C2: for a non-zero since every record returned by a successful FetchTrades
\* has Timestamp >= since; for the zero watermark no record is filtered out.
C2_WatermarkFilter ==
    FetchSucceeded =>
        /\ since # ZeroTime =>
              \A i \in 1..Len(fetchOut.trades) : fetchOut.trades[i].Timestamp >= since
        /\ since = ZeroTime => Len(fetchOut.trades) = Len(httpResp.fills)

\* C2 witness: a non-zero since, one fill before it (dropped) and one fill
\* exactly at it (returned).
C2_Witness ==
    /\ FetchSucceeded
    /\ since # ZeroTime
    /\ Len(httpResp.fills) = 2
    /\ Len(fetchOut.trades) = 1
    /\ fetchOut.trades[1].Timestamp = since
    /\ \E i \in 1..2 : parseTimestamp(httpResp.fills[i].Time) \in 1..(since - 1)

\* C3: a FetchTrades that returns without error returns exactly the upstream
\* fills whose timestamp is >= since (all of them for the zero watermark),
\* each once; a FetchTrades that returns an error returns no records.
C3_ExactlyQualifyingFills ==
    fetchPc = "done" =>
        IF fetchOut.err = NoErr
        THEN IsPermutationOf(fetchOut.trades,
                 [i \in 1..Len(QualifyingFills) |->
                     transformFill(QualifyingFills[i], account.ID)])
        ELSE fetchOut.trades = <<>>

\* C3 witness: two distinct fills at or after a non-zero since, one of them
\* exactly at since, both returned.
C3_Witness ==
    /\ FetchSucceeded
    /\ since # ZeroTime
    /\ Len(httpResp.fills) = 2
    /\ httpResp.fills[1] # httpResp.fills[2]
    /\ Len(fetchOut.trades) = 2
    /\ \E i \in 1..2 : fetchOut.trades[i].Timestamp = since

\* C9: FetchTrades called with an already cancelled context returns the
\* context's Canceled error and no records, and sends no HTTP request.
C9_PreCancelled ==
    ctxErr = "Canceled" =>
        /\ fetchPc = "done"
        /\ fetchOut = Result(<<>>, Err("ctx", "Canceled"))
        /\ httpRequests = 0
        /\ httpResp = NoResponse

\* C9 witness: a cancelled context with an account that passes the other
\* guards, so that only the cancellation keeps the request from being sent.
C9_Witness ==
    /\ fetchPc = "done"
    /\ ctxErr = "Canceled"
    /\ IsUUID(account.ID)
    /\ account.AccountIdentifier # ""

\* C10: on HTTP 429 FetchTrades returns no records and a RateLimitError for
\* "hyperliquid" whose RetryAfter is the Retry-After header in whole seconds
\* (60 s for "60"), and zero when the header is absent or not an integer.
C10_RateLimit ==
    (fetchPc = "done" /\ httpResp.StatusCode = StatusTooManyRequests) =>
        LET h == httpResp.RetryAfter IN
        /\ fetchOut.trades = <<>>
        /\ fetchOut.err.kind = "RateLimitError"
        /\ fetchOut.err.Exchange = "hyperliquid"
        /\ h = <<"6", "0">> => fetchOut.err.RetryAfter = 60 * Second
        /\ (h = <<>> \/ ~AtoiOK(h)) => fetchOut.err.RetryAfter = 0
        /\ AtoiOK(h) => fetchOut.err.RetryAfter = Atoi(h) * Second

\* C10 witness: a 429 answer with Retry-After: 60.
C10_Witness ==
    /\ fetchPc = "done"
    /\ httpResp.StatusCode = StatusTooManyRequests
    /\ httpResp.RetryAfter = <<"6", "0">>
    /\ fetchOut.err.RetryAfter = 60000


(***************************************************************************)
(* Properties of AddFundingPayments                                        *)
(***************************************************************************)
\* The call of caller p is over: it returned, or the recursion overflowed
Ended(p) == pc[p] \in {"done", "crashed"}

\* The records of caller p's batch are distinct and exactly one of them was
\* in the store when the call started
ExactlyOneCollision(p) ==
    /\ Len(inputs[p]) >= 1
    /\ \A i, j \in DOMAIN inputs[p] : i # j => inputs[p][i] # inputs[p][j]
    /\ Cardinality(Range(inputs[p]) \cap storeBefore[p]) = 1

\* C4: for a batch of N records of which exactly one collides with a key
\* already in the store, AddFundingPayments returns no error and exactly the
\* N-1 records that were newly inserted.
C4_PartialSuccess ==
    \A p \in Procs :
        (Ended(p) /\ ExactlyOneCollision(p) /\ otherErrs[p] = 0) =>
            /\ pc[p] = "done"
            /\ out[p].err = None
            /\ Len(out[p].payments) = Len(inputs[p]) - 1
            /\ Range(out[p].payments) = Range(inputs[p]) \ storeBefore[p]

\* C5: the second of two AddFundingPayments calls in sequence with the same
\* non-empty batch returns no error and zero newly inserted records, and
\* leaves the store as the first call left it.
C5_SecondCallIdempotent ==
    \A p \in Procs :
        (/\ Len(calls[p]) >= 1
         /\ calls[p][1].inputs # <<>>
         /\ calls[p][1].out.err = None
         /\ calls[p][1].otherErrs = 0
         /\ \/ Len(calls[p]) = 2
            \/ pc[p] = "crashed"
         /\ inputs[p] = calls[p][1].inputs
         /\ otherErrs[p] = 0) =>
            /\ pc[p] = "done"
            /\ out[p] = AddResult(<<>>, None)
            /\ store = calls[p][1].storeAfter

C7_OtherErrorFailsCall ==
    \A p \in Procs :
        (pc[p] = "done" /\ otherErrs[p] > 0) =>
            /\ out[p].err # None
            /\ out[p].payments = <<>>

\* C8: whenever AddFundingPayments returns without error, every record of its
\* batch is in the store: newly inserted by the call and in the returned list,
\* or present before the call.
C8_BatchStored ==
    \A p \in Procs :
        (pc[p] = "done" /\ out[p].err = None) =>
            \A k \in Range(inputs[p]) :
                /\ k \in store
                /\ k \in Range(out[p].payments) \/ k \in storeBefore[p]


(***************************************************************************)
(* Claims about the normalization of fills                                 *)
(***************************************************************************)
\* FetchTrades processed a response that decoded as a list of fills
FetchDecoded ==
    fetchPc = "done" /\ httpResp.StatusCode = StatusOK /\ httpResp.decodes

\* C11: if any fill of the upstream response has no per-fill identifier,
\* FetchTrades fails with a MissingRequiredField error and returns no
\* records.
C11_MissingFillID ==
    (FetchDecoded /\ \E i \in DOMAIN httpResp.fills : httpResp.fills[i].Tid = Nil) =>
        /\ fetchOut.err.kind = "MissingRequiredField"
        /\ fetchOut.trades = <<>>

\* C12: if any upstream record has an unparseable timestamp or no base asset,
\* the call aborts with an error and returns no records.
C12_UnnormalizableAborts ==
    (FetchDecoded /\ \E i \in DOMAIN httpResp.fills :
                        \/ IsZero(parseTimestamp(httpResp.fills[i].Time))
                        \/ parseAssetPair(httpResp.fills[i].Coin)[1] = <<>>) =>
        /\ fetchOut.err # NoErr
        /\ fetchOut.trades = <<>>

\* C13: the TradeID is the fill id, not the transaction hash: when the fills
\* returned by a successful call have pairwise different fill ids, the
\* records have pairwise different TradeIDs.
C13_TradeIDIsFillID ==
    (FetchSucceeded /\ httpResp.StatusCode = StatusOK
        /\ \A i, j \in DOMAIN QualifyingFills :
              i # j => QualifyingFills[i].Tid # QualifyingFills[j].Tid) =>
        \A i, j \in DOMAIN fetchOut.trades :
            i # j => fetchOut.trades[i].TradeID # fetchOut.trades[j].TradeID

\* validateTradeInput (exchange/contract.go): the structural validity of a
\* returned record
validateTradeInput(trade) ==
    /\ trade.TradeID # ""
    /\ trade.Side \in {"buy", "sell"}
    /\ trade.BaseAsset # <<>>
    /\ trade.QuoteAsset # <<>>
    /\ trade.Price # <<>>
    /\ trade.Quantity # <<>>
    /\ trade.Fee # <<>>
    /\ ~IsZero(trade.Timestamp)

\* C14: every record returned by a successful FetchTrades is structurally
\* valid, whatever the upstream sent.
C14_RecordsValid ==
    FetchSucceeded =>
        \A i \in DOMAIN fetchOut.trades : validateTradeInput(fetchOut.trades[i])

\* C15: FetchTrades terminates for every upstream behaviour, a full page
\* included: it sends at most one request, and a call that has sent its
\* request returns.
C15_Terminates ==
    /\ [](httpRequests <= 1)
    /\ (fetchPc = "waiting") ~> (fetchPc = "done")

\* C15 witness: the upstream answered with a full page and the call returned
\* after its one request.
C15_Witness ==
    /\ fetchPc = "done"
    /\ httpRequests = 1
    /\ httpResp.StatusCode = StatusOK
    /\ Len(httpResp.fills) = MaxFills
    /\ Len(fetchOut.trades) = MaxFills

\* C16: when the account ID is not a UUID or the address is empty,
\* FetchTrades returns an error and no records and sends no HTTP request.
C16_InvalidAccountRejected ==
    (fetchPc # "idle" /\ (~IsUUID(account.ID) \/ account.AccountIdentifier = "")) =>
        /\ fetchPc = "done"
        /\ fetchOut.err # NoErr
        /\ fetchOut.trades = <<>>
        /\ httpRequests = 0

\* C16 witness: a live context, a valid account ID and an empty address; the
\* call returned the address error.
C16_Witness ==
    /\ fetchPc = "done"
    /\ ctxErr = None
    /\ IsUUID(account.ID)
    /\ account.AccountIdentifier = ""
    /\ fetchOut.err.kind = "account identifier (address) is required"
    /\ httpRequests = 0

(***************************************************************************)
(* Claims about the db client                                              *)
(***************************************************************************)
\* C17: AddFundingPayments with an empty batch returns an empty result and
\* no error without any backend request (and leaves the store as it was);
\* so do LatestTrade with an empty account list and CreatePositionTrades
\* with an empty input.
C17_EmptyInputNoRequest ==
    /\ \A p \in Procs :
          (pc[p] = "done" /\ inputs[p] = <<>>) =>
              /\ out[p] = AddResult(<<>>, None)
              /\ requests[p] = 0
              /\ store = storeBefore[p]
    /\ (dbPc = "done" /\ dbIn = <<>>) =>
          /\ dbOut = DbResult(EmptyMap, <<>>, None)
          /\ dbRequests = 0

\* C17 witness: each of the three operations has returned for an empty
\* input, AddFundingPayments last.
C17_Witness ==
    /\ emptyReturned = {"AddFundingPayments", "LatestTrade", "CreatePositionTrades"}
    /\ pc[1] = "done"
    /\ inputs[1] = <<>>
    /\ requests[1] = 0

(***************************************************************************)
(* Claims about concurrent fetch calls                                     *)
(***************************************************************************)
\* What the call of caller c returns when it runs alone on a fresh Client
\* with the descriptors as passed, against the same upstream and with the
\* same fate of its request
AloneResults(c) ==
    LET a == AccountObjects[cArgs[c].account] IN
    IF GuardError(cArgs[c].ctx, a) # NoErr
    THEN {Result(<<>>, GuardError(cArgs[c].ctx, a))}
    ELSE IF cFailed[c]
    THEN {Result(<<>>, Err("failed to fetch trades", "transport"))}
    ELSE HandleResponse(Serve(upstream, RequestOf(NewClient, a)), cArgs[c].since, a.ID)

\* C18: in every interleaving of two FetchTrades calls on one Client, each
\* call returns a result it would return alone against the same upstream,
\* and the Client's configuration and the account descriptors stay as they
\* were.
C18_CallsIndependent ==
    /\ client = NewClient
    /\ acctObj = AccountObjects
    /\ \A c \in Callers : cPc[c] = "done" => cOut[c] \in AloneResults(c)

\* C18 witness: both calls sent their request for the same account with
\* different watermarks, and each returned its own result.
C18_Witness ==
    /\ \A c \in Callers : cPc[c] = "done" /\ cLocal[c].req # NoRequest /\ ~cFailed[c]
    /\ cArgs[1].account = cArgs[2].account
    /\ cArgs[1].since # cArgs[2].since
    /\ cOut[1].err = NoErr /\ cOut[2].err = NoErr
    /\ Len(cOut[1].trades) = 2 /\ Len(cOut[2].trades) = 1

(***************************************************************************)
(* Claims about FetchFundingPayments                                       *)
(***************************************************************************)
FundingSucceeded ==
    fundPc = "done" /\ fundResp.StatusCode = StatusOK /\ fundOut.err = NoErr

BuyCodes == {<<"B">>, <<"B", "U", "Y">>, <<"L", "O", "N", "G">>}

SellCodes ==
    {<<"S">>, <<"S", "E", "L", "L">>, <<"S", "H", "O", "R", "T">>, <<"A">>,
     <<"C", "L", "O", "S", "E">>,
     <<"L", "I", "Q", "U", "I", "D", "A", "T", "I", "O", "N">>}

\* text is code, in any case, between leading and trailing whitespace
IsCode(text, code) ==
    \E i \in 1..(Len(text) + 1) :
        /\ i + Len(code) - 1 <= Len(text)
        /\ \A k \in 1..(i - 1) : IsSpace(text[k])
        /\ \A k \in (i + Len(code))..Len(text) : IsSpace(text[k])
        /\ \A k \in 1..Len(code) : ToUpperChar(text[i + k - 1]) = code[k]

\* C20: normalizeSide always returns "buy" or "sell": "sell" exactly for the
\* codes S, SELL, SHORT, A, CLOSE and LIQUIDATION in any case and between
\* any whitespace, "buy" for B, BUY, LONG and for every other input.
C20_NormalizeSide ==
    callOp = "normalizeSide" =>
        /\ callRet \in {"buy", "sell"}
        /\ (\E code \in BuyCodes : IsCode(callArg, code)) => callRet = "buy"
        /\ (callRet = "sell") <=> (\E code \in SellCodes : IsCode(callArg, code))

\* C20 witness: " Short" followed by a tab was normalized to "sell".
C20_Witness ==
    /\ callOp = "normalizeSide"
    /\ callArg = <<" ", "S", "h", "o", "r", "t", "\t">>
    /\ callRet = "sell"

\* The positions of the separator in a text
Dashes(text) == {i \in DOMAIN text : text[i] = "-"}

\* C21: parseAssetPair gives (symbol, "USDC") for a symbol without "-", and
\* (base, quote) for base + "-" + quote with no further "-"; "BTC-USDC"
\* gives ("BTC", "USDC").
C21_ParseAssetPair ==
    callOp = "parseAssetPair" =>
        /\ Dashes(callArg) = {} => callRet = <<callArg, USDC>>
        /\ \A i \in Dashes(callArg) :
              Dashes(callArg) = {i} =>
                  callRet = <<SubSeq(callArg, 1, i - 1),
                              SubSeq(callArg, i + 1, Len(callArg))>>

\* C21 witness: "BTC-USDC" was split into "BTC" and "USDC".
C21_Witness ==
    /\ callOp = "parseAssetPair"
    /\ callArg = <<"B", "T", "C", "-", "U", "S", "D", "C">>
    /\ callRet = <<<<"B", "T", "C">>, <<"U", "S", "D", "C">>>>

\* The decimal value a text denotes: whole part and digits after the point
ParseDecimal(text) ==
    LET parts == Split(text, ".") IN
    [v |-> Atoi(parts[1]),
     frac |-> IF Len(parts) >= 2 THEN TrimRightChar(parts[2], "0") ELSE <<>>]

\* C22: convertToString returns a text unchanged and renders a number as
\* decimal text that parses back to the same value and has neither trailing
\* zeros after the point nor a trailing point.
C22_ConvertRoundTrip ==
    callOp \in {"convertToString", "models.convertToString"} =>
        /\ callArg.k = "string" => callRet = callArg.v
        /\ callArg.k = "float64" =>
              /\ ParseDecimal(callRet) = [v |-> callArg.v, frac |-> callArg.frac]
              /\ callRet[Len(callRet)] # "."
              /\ (\E i \in DOMAIN callRet : callRet[i] = ".") => callRet[Len(callRet)] # "0"

(***************************************************************************)
(* Claims about the requests of AddFundingPayments                         *)
(***************************************************************************)
\* C23: a call of AddFundingPayments on a batch of N records sends at most
\* 1 + N backend requests and does not run away, whatever the backend
\* answers.
C23_RequestBound ==
    \A p \in Procs :
        /\ pc[p] # "crashed"
        /\ requests[p] <= 1 + Len(inputs[p])

\* C24: two concurrent AddFundingPayments calls on batches that share
\* records, with a backend whose requests all are answered by the store
\* (insert or duplicate error): neither runs away, both return without
\* error, every record of either batch is stored, and no record is in the
\* result of both.
C24_ConcurrentAdds ==
    (/\ Range(inputs[1]) \cap Range(inputs[2]) # {}
     /\ \A p \in Procs : otherErrs[p] = 0) =>
        /\ \A p \in Procs : pc[p] # "crashed"
        /\ \A p \in Procs : pc[p] = "done" => out[p].err = None
        /\ (\A p \in Procs : pc[p] = "done") =>
              /\ Range(inputs[1]) \cup Range(inputs[2]) \subseteq store
              /\ Range(out[1].payments) \cap Range(out[2].payments) = {}

(***************************************************************************)
(* Claims about paging                                                     *)
(***************************************************************************)
\* The response was a full page: it holds as many fills as the server's cap
FullPage == FetchDecoded /\ Len(httpResp.fills) = MaxFills

\* C25: the first request of FetchTrades carries the cursor seeded from
\* since (epoch zero for the zero watermark), and a page is the last one
\* requested only if it is smaller than the server's cap: after a full page
\* the call sends a further request.
C25_Cursor ==
    /\ sentBody # NoBody =>
          /\ "startTime" \in DOMAIN sentBody
          /\ sentBody.startTime = (IF IsZero(since) THEN 0 ELSE since)
    /\ (FullPage /\ FetchSucceeded) => httpRequests >= 2

\* C26: if the context is cancelled after a full page has been received and
\* before the next page is requested, FetchTrades sends no further request
\* and returns the cancellation error and no records.
C26_CancelBetweenPages ==
    (FullPage /\ ctxAfterPage # None) =>
        /\ httpRequests = 1
        /\ fetchOut = Result(<<>>, Err("ctx", ctxAfterPage))

(***************************************************************************)
(* Claims about the guards and the statuses of FetchTrades                 *)
(***************************************************************************)
\* C27: FetchTrades evaluates its guards in the order cancelled context,
\* account-ID shape, non-empty address, and the first failing guard decides
\* the error returned.
C27_GuardOrder ==
    fetchPc # "idle" =>
        /\ ctxErr # None => fetchOut = Result(<<>>, Err("ctx", ctxErr))
        /\ (ctxErr = None /\ ~IsUUID(account.ID)) =>
              fetchOut = Result(<<>>, Err("invalid account ID", account.ID))
        /\ (ctxErr = None /\ IsUUID(account.ID) /\ account.AccountIdentifier = "") =>
              fetchOut.err.kind = "account identifier (address) is required"

\* C27 witness: a malformed account ID together with an empty address under
\* a live context; the call returned the invalid-account-ID error.
C27_Witness ==
    /\ fetchPc = "done"
    /\ ctxErr = None
    /\ ~IsUUID(account.ID)
    /\ account.AccountIdentifier = ""
    /\ fetchOut.err.kind = "invalid account ID"

\* C28: for a response whose status is neither 200 nor 429, FetchTrades
\* returns no records and the status error, which is not a RateLimitError,
\* whether or not the body would decode; a RateLimitError is returned only
\* for status 429.
C28_OtherStatuses ==
    (fetchPc = "done" /\ httpResp # NoResponse) =>
        /\ httpResp.StatusCode \notin {StatusOK, StatusTooManyRequests} =>
              /\ fetchOut.trades = <<>>
              /\ fetchOut.err.kind = "API returned status"
              /\ ~IsRateLimitError(fetchOut.err)
        /\ IsRateLimitError(fetchOut.err) =>
              httpResp.StatusCode = StatusTooManyRequests

\* C28 witness: status 404 with a body that would decode; the call returned
\* the status error.
C28_Witness ==
    /\ fetchPc = "done"
    /\ httpResp.StatusCode = 404
    /\ httpResp.decodes
    /\ fetchOut.trades = <<>>
    /\ fetchOut.err.kind = "API returned status"

(***************************************************************************)
(* Claims about the exchange registry                                      *)
(***************************************************************************)
\* C29: GetClient(name) returns a non-nil client and a nil error exactly
\* when name is one of ListAvailableExchanges(), and then the client's
\* Name() is name; for every other name, the empty one included, it returns
\* a nil client and an error that is ErrExchangeNotFound.
C29_GetClient ==
    callOp = "GetClient" =>
        IF callArg \in Range(ListAvailableExchanges)
        THEN /\ callRet.client # NilClient
             /\ callRet.err = NilError
             /\ Name(callRet.client) = callArg
        ELSE /\ callRet.client = NilClient
             /\ callRet.err # NilError
             /\ ErrorsIs(callRet.err, ErrExchangeNotFound)

\* C29 witness: GetClient("hyperliquid") returned the hyperliquid client
C29_Witness ==
    /\ callOp = "GetClient"
    /\ callArg = HyperliquidName
    /\ callRet.client = NewClient
    /\ callRet.err = NilError

(***************************************************************************)
(* Claims about LatestTrade                                                *)
(***************************************************************************)
\* C30: the map LatestTrade returns has exactly one entry per account ID
\* that occurs in the response, and the entry is the first row of that
\* account in response order; accounts without a row have no entry.
C30_LatestPerAccount ==
    (dbOp = "LatestTrade" /\ dbPc = "done" /\ dbOut.err = None) =>
        /\ DOMAIN dbOut.trades = {dbRows[i].ExchangeAccountID : i \in DOMAIN dbRows}
        /\ \A a \in DOMAIN dbOut.trades :
              \E i \in DOMAIN dbRows :
                 /\ dbRows[i].ExchangeAccountID = a
                 /\ \A j \in 1..(i - 1) : dbRows[j].ExchangeAccountID # a
                 /\ dbOut.trades[a] = dbRows[i]

\* C30 witness: the response held two rows of one account, the later trade
\* first; the map holds that first row and nothing for the other account.
C30_Witness ==
    /\ dbOp = "LatestTrade" /\ dbPc = "done" /\ dbOut.err = None
    /\ Len(dbRows) = 2
    /\ dbRows[1].ExchangeAccountID = "acct-a"
    /\ dbRows[2].ExchangeAccountID = "acct-a"
    /\ dbRows[1].Timestamp > dbRows[2].Timestamp
    /\ DOMAIN dbOut.trades = {"acct-a"}
    /\ dbOut.trades["acct-a"] = dbRows[1]

=============================================================================
